---------------------------- MODULE Spec2Model ----------------------------
(***************************************************************************)
(* Model of deeppavlov/models/evolution/evolution_many_inputs_model.py:    *)
(* KerasEvolutionClassificationManyInputsModel.                            *)
(*                                                                         *)
(*   Spec      the model build, evolution_many_inputs_classification_model *)
(*             (zero-mask short cut, initialize_all_nodes, the per-stream  *)
(*             scheduling loop and pass, the cross-stream reduction);      *)
(*   SpecNode  one call of get_node_output on predecessor outputs of given *)
(*             shapes (rank reconciliation, concatenation, fallback);      *)
(*   SpecInfer the batch interface: infer_on_batch, train_on_batch,        *)
(*             __call__ (how the positional arguments are split).          *)
(*                                                                         *)
(* A tensor shape is the sequence of its non-batch dimensions: <<w>> is    *)
(* rank 2 (batch x features), <<t, w>> is rank 3 (batch x time x features).*)
(***************************************************************************)
EXTENDS Integers, Sequences, FiniteSets, TLC

VARIABLES
    \* ---- the build (Spec)
    binary_mask,        \* params["binary_mask"]: a nested 0/1 array, [i][j]
    n_in,               \* len(params["in"]): the number of input streams
    out_width,          \* feature width of a stream's pooled output (0: none built yet)
    pc,                 \* position in evolution_many_inputs_classification_model
    model_layers,       \* nodes holding a layer instance (initialize_all_nodes)
    graph_calls,        \* calls of get_digraph_from_binary_mask so far
    sequence_of_nodes,  \* the list of lists built by the scheduling loop
    order,              \* sequence_of_nodes after sum(sequence_of_nodes, [])
    node_calls,         \* get_node_output calls per node in the current pass
    full_outputs,       \* per-stream rank-2 outputs collected so far
    features,           \* the list handed to the final Concatenate
    \* ---- get_node_output (SpecNode)
    node_pc,            \* position in get_node_output
    edges_outputs,      \* shapes of the predecessors' outputs, in in_edges order
    inp_list,           \* inp_list of get_node_output
    inp,                \* the reconciled input shape
    dense_created,      \* Dense layers instantiated inside get_node_output
    \* ---- the batch interface (SpecInfer)
    api_pc,             \* "ready" | "returned" | "raised"
    api_op,             \* the method called
    api_in,             \* len(self.opt["in"])
    api_args,           \* the positional arguments of the last call
    api_labels,         \* what the call bound to `labels`
    api_texts,          \* what the call bound to `texts`
    api_result          \* what the call returned or raised

buildVars == <<binary_mask, n_in, out_width, pc, model_layers, graph_calls,
               sequence_of_nodes, order, node_calls, full_outputs, features>>
nodeVars  == <<node_pc, edges_outputs, inp_list, inp, dense_created>>
apiVars   == <<api_pc, api_op, api_in, api_args, api_labels, api_texts, api_result>>
vars      == <<buildVars, nodeVars, apiVars>>

---------------------------------------------------------------------------
(* Bounds *)

NumNodes == 3       \* nodes of the mask
MaxEdges == 4       \* ones in the mask
MaxStreams == 3     \* input streams of a model
MaxWidth == 2       \* feature width of a tensor
MaxTime == 2        \* time length of a rank-3 tensor
MaxPreds == 3       \* predecessors of a node in get_node_output
BatchSize == 2      \* samples in a batch argument

Nodes == 1..NumNodes
\* The scheduling loop has no iteration limit; the model stops following it
\* after MaxLayers layers (a DAG over NumNodes nodes needs at most NumNodes).
MaxLayers == NumNodes + 2

---------------------------------------------------------------------------
(* Sequence helpers (Python list operations) *)

RECURSIVE SortedSeq(_)
SortedSeq(S) ==
    IF S = {} THEN <<>>
    ELSE LET m == CHOOSE x \in S : \A y \in S : x <= y
         IN  <<m>> \o SortedSeq(S \ {m})

Range(s) == { s[i] : i \in 1..Len(s) }

\* sum(sequence_of_nodes, [])
RECURSIVE Flatten(_)
Flatten(ss) == IF ss = <<>> THEN <<>> ELSE Head(ss) \o Flatten(Tail(ss))

Count(s, x) == Cardinality({ i \in 1..Len(s) : s[i] = x })

RECURSIVE SubsetsUpTo(_, _)
SubsetsUpTo(S, k) ==
    IF k = 0 THEN {{}}
    ELSE LET P == SubsetsUpTo(S, k - 1)
         IN  P \cup { p \cup {e} : p \in P, e \in S }

---------------------------------------------------------------------------
(* The graph extractor (check_binary_mask.py) *)

MaskOf(E) == [i \in Nodes |-> [j \in Nodes |-> IF <<i, j>> \in E THEN 1 ELSE 0]]
Masks == { MaskOf(E) : E \in SubsetsUpTo(Nodes \X Nodes, MaxEdges) }

\* np.sum(params["binary_mask"])
MaskSum(mask) == Cardinality({ p \in Nodes \X Nodes : mask[p[1]][p[2]] = 1 })

\* mask[i][j] == 1 is an edge from node i to node j
get_digraph_from_binary_mask(mask) ==
    [nodes |-> Nodes, edges |-> { p \in Nodes \X Nodes : mask[p[1]][p[2]] = 1 }]

\* dg.in_edges(v) / dg.out_edges(v), as lists of (u, v) pairs
in_edges(dg, v) ==
    LET ps == SortedSeq({ u \in dg.nodes : <<u, v>> \in dg.edges })
    IN  [i \in 1..Len(ps) |-> <<ps[i], v>>]
out_edges(dg, u) ==
    LET cs == SortedSeq({ v \in dg.nodes : <<u, v>> \in dg.edges })
    IN  [i \in 1..Len(cs) |-> <<u, cs[i]>>]

InDegree(dg, v)  == Cardinality({ u \in dg.nodes : <<u, v>> \in dg.edges })
OutDegree(dg, v) == Cardinality({ w \in dg.nodes : <<v, w>> \in dg.edges })

\* sources: no incoming, some outgoing; sinks: no outgoing, some incoming;
\* isolates: no edges at all
find_sources_and_sinks(dg) ==
    [sources  |-> SortedSeq({ v \in dg.nodes :
                              InDegree(dg, v) = 0 /\ OutDegree(dg, v) > 0 }),
     sinks    |-> SortedSeq({ v \in dg.nodes :
                              InDegree(dg, v) > 0 /\ OutDegree(dg, v) = 0 }),
     isolates |-> SortedSeq({ v \in dg.nodes :
                              InDegree(dg, v) = 0 /\ OutDegree(dg, v) = 0 })]

DG  == get_digraph_from_binary_mask(binary_mask)
SSI == find_sources_and_sinks(DG)

---------------------------------------------------------------------------
(* Keras merge layers, on rank-2 tensors.  A tensor is recorded as          *)
(* [op, idx, over, width]: the layer that produced it, the stream it        *)
(* belongs to (0 for a merge), the ops of the merge's operands, its width.  *)

StreamTensor(i, w) == [op |-> "stream", idx |-> i, over |-> <<>>, width |-> w]

Ops(xs) == [i \in 1..Len(xs) |-> xs[i].op]

\* _Merge shape rule: equal widths, or broadcast from width 1
Broadcastable(xs) ==
    \A i, j \in 1..Len(xs) :
        xs[i].width = xs[j].width \/ xs[i].width = 1 \/ xs[j].width = 1

MaxOf(S) == CHOOSE x \in S : \A y \in S : y <= x

Merged(name, xs) ==
    [op |-> name, idx |-> 0, over |-> Ops(xs),
     width |-> MaxOf({ xs[i].width : i \in 1..Len(xs) })]

\* Add()(xs), Multiply()(xs): ValueError on fewer than 2 inputs
MergeRaises(xs) == Len(xs) < 2 \/ ~Broadcastable(xs)

\* Subtract()(xs): ValueError unless exactly 2 inputs
SubtractRaises(xs) == Len(xs) # 2 \/ ~Broadcastable(xs)

\* Mutant of CrossStreamReduction: summ and mult are built after subt was
\* appended to full_outputs, so they range over the difference too.
CrossStreamReduction_MergeAfterAppend(fo) ==
    IF MergeRaises(fo)
    THEN [raised |-> TRUE, out |-> <<>>]
    ELSE LET withSubt == IF SubtractRaises(fo) THEN fo
                         ELSE Append(fo, Merged("sub", fo))
         IN  [raised |-> FALSE,
              out |-> withSubt \o <<Merged("add", withSubt),
                                    Merged("mul", withSubt)>>]

\* Lines 372-383 (and, for the zero mask, 275-286): summ and mult are built
\* from the stream outputs, subt is appended first when it can be built.
CrossStreamReduction(fo) ==
    IF MergeRaises(fo)
    THEN [raised |-> TRUE, out |-> <<>>]
    ELSE LET summ == Merged("add", fo)
             mult == Merged("mul", fo)
             withSubt == IF SubtractRaises(fo) THEN fo
                         ELSE Append(fo, Merged("sub", fo))
         IN  [raised |-> FALSE, out |-> withSubt \o <<summ, mult>>]

RECURSIVE SumWidth(_)
SumWidth(xs) == IF xs = <<>> THEN 0 ELSE Head(xs).width + SumWidth(Tail(xs))

---------------------------------------------------------------------------
(* The scheduling loop *)

Scheduled(seqs) == Range(Flatten(seqs))

Preds(dg, v) == { in_edges(dg, v)[k][1] : k \in 1..Len(in_edges(dg, v)) }

\* Mutant of ReadyChildren: the test of line 322 is dropped, every child of
\* the node is taken.
ReadyChildren_NoParentTest(dg, seqs, node) ==
    LET oe == out_edges(dg, node)
    IN  [i \in 1..Len(oe) |-> oe[i][2]]

\* Lines 314-323 for one node of the last layer: its children all of whose
\* parents are in the layers built so far, one entry per out edge.
ReadyChildren(dg, seqs, node) ==
    LET oe == out_edges(dg, node)
        children == [i \in 1..Len(oe) |-> oe[i][2]]
        Ready(c) == Preds(dg, c) \subseteq Scheduled(seqs)
    IN  SelectSeq(children, Ready)

\* Lines 309-323: next_nodes
NextNodes(dg, seqs) ==
    LET last == seqs[Len(seqs)]
    IN  Flatten([i \in 1..Len(last) |-> ReadyChildren(dg, seqs, last[i])])

SinksCovered(seqs) == Range(SSI.sinks) \subseteq Scheduled(seqs)

\* Lines 331-345: every get_node_output call finds its predecessors' outputs
PassHasInputs(dg, ord) ==
    \A k \in 1..Len(ord) :
        Preds(dg, ord[k]) \subseteq { ord[j] : j \in 1..(k - 1) }

---------------------------------------------------------------------------
(* Actions of the build *)

NoCalls == [v \in Nodes |-> 0]

\* Lines 268-291: the zero mask
Degenerate ==
    /\ pc = "start"
    /\ MaskSum(binary_mask) = 0
    /\ LET fo == [i \in 1..n_in |-> StreamTensor(i, 1)]
           r  == CrossStreamReduction(fo)
       IN  /\ full_outputs' = fo
           /\ features' = r.out
           /\ pc' = IF r.raised THEN "error" ELSE "done"
    /\ out_width' = 1
    /\ UNCHANGED <<binary_mask, n_in, model_layers, graph_calls,
                   sequence_of_nodes, order, node_calls>>

\* Lines 293, 216-247: one layer instance per non-isolate node; a node name
\* that is no callable of the module raises AttributeError (the names come
\* with params, so either may happen)
initialize_all_nodes ==
    /\ pc = "start"
    /\ MaskSum(binary_mask) # 0
    /\ graph_calls' = graph_calls + 1
    /\ \/ /\ model_layers' = Nodes \ Range(SSI.isolates)
          /\ pc' = "stream"
       \/ /\ model_layers' = {}
          /\ pc' = "error"
    /\ UNCHANGED <<binary_mask, n_in, out_width, sequence_of_nodes, order,
                   node_calls, full_outputs, features>>

\* Lines 295-304: the next input stream
StreamStart ==
    /\ pc = "stream"
    /\ Len(full_outputs) < n_in
    /\ graph_calls' = graph_calls + 1
    /\ sequence_of_nodes' = <<SSI.sources>>
    /\ order' = <<>>
    /\ node_calls' = NoCalls
    /\ pc' = "sched"
    /\ UNCHANGED <<binary_mask, n_in, out_width, model_layers, full_outputs,
                   features>>

\* Lines 307-308, 327: the sinks are covered
SchedBreak ==
    /\ pc = "sched"
    /\ SinksCovered(sequence_of_nodes)
    /\ order' = Flatten(sequence_of_nodes)
    /\ pc' = "materialize"
    /\ UNCHANGED <<binary_mask, n_in, out_width, model_layers, graph_calls,
                   sequence_of_nodes, node_calls, full_outputs, features>>

\* Lines 309-324: one more iteration of `while True`
SchedStep ==
    /\ pc = "sched"
    /\ ~SinksCovered(sequence_of_nodes)
    /\ Len(sequence_of_nodes) < MaxLayers
    /\ sequence_of_nodes' =
           Append(sequence_of_nodes, NextNodes(DG, sequence_of_nodes))
    /\ UNCHANGED <<binary_mask, n_in, out_width, pc, model_layers,
                   graph_calls, order, node_calls, full_outputs, features>>

\* Lines 331-345: get_node_output for every entry of the flattened sequence
Materialize ==
    /\ pc = "materialize"
    /\ IF PassHasInputs(DG, order)
       THEN /\ node_calls' = [v \in Nodes |->
                                IF v \in Range(SSI.isolates) THEN 0
                                ELSE Count(order, v)]
            /\ pc' = "collect"
       ELSE /\ node_calls' = node_calls
            /\ pc' = "error"
    /\ UNCHANGED <<binary_mask, n_in, out_width, model_layers, graph_calls,
                   sequence_of_nodes, order, full_outputs, features>>

\* Lines 347-370: the stream's output; Concatenate raises on an empty list
CollectSinks ==
    /\ pc = "collect"
    /\ IF Len(SSI.sinks) = 0
       THEN /\ pc' = "error"
            /\ UNCHANGED <<out_width, full_outputs>>
       ELSE /\ pc' = "stream"
            /\ \E w \in 1..MaxWidth :
                 /\ out_width = 0 \/ out_width = w
                 /\ out_width' = w
                 /\ full_outputs' =
                      Append(full_outputs, StreamTensor(Len(full_outputs) + 1, w))
    /\ UNCHANGED <<binary_mask, n_in, model_layers, graph_calls,
                   sequence_of_nodes, order, node_calls, features>>

\* Lines 372-388: the cross-stream reduction and the head
Reduce ==
    /\ pc = "stream"
    /\ Len(full_outputs) = n_in
    /\ LET r == CrossStreamReduction(full_outputs)
       IN  /\ features' = r.out
           /\ pc' = IF r.raised THEN "error" ELSE "done"
    /\ UNCHANGED <<binary_mask, n_in, out_width, model_layers, graph_calls,
                   sequence_of_nodes, order, node_calls, full_outputs>>

BuildInit ==
    /\ binary_mask \in Masks
    /\ n_in \in 1..MaxStreams
    /\ out_width = 0
    /\ pc = "start"
    /\ model_layers = {}
    /\ graph_calls = 0
    /\ sequence_of_nodes = <<>>
    /\ order = <<>>
    /\ node_calls = NoCalls
    /\ full_outputs = <<>>
    /\ features = <<>>

BuildIdle ==
    /\ binary_mask = MaskOf({})
    /\ n_in = 1
    /\ out_width = 0
    /\ pc = "idle"
    /\ model_layers = {}
    /\ graph_calls = 0
    /\ sequence_of_nodes = <<>>
    /\ order = <<>>
    /\ node_calls = NoCalls
    /\ full_outputs = <<>>
    /\ features = <<>>

NodeIdle ==
    /\ node_pc = "idle"
    /\ edges_outputs = <<>>
    /\ inp_list = <<>>
    /\ inp = <<>>
    /\ dense_created = 0

ApiIdle ==
    /\ api_pc = "idle"
    /\ api_op = "none"
    /\ api_in = 1
    /\ api_args = <<>>
    /\ api_labels = <<>>
    /\ api_texts = <<>>
    /\ api_result = "none"

Init == BuildInit /\ NodeIdle /\ ApiIdle

Next ==
    \/ Degenerate /\ UNCHANGED <<nodeVars, apiVars>>
    \/ initialize_all_nodes /\ UNCHANGED <<nodeVars, apiVars>>
    \/ StreamStart /\ UNCHANGED <<nodeVars, apiVars>>
    \/ SchedBreak /\ UNCHANGED <<nodeVars, apiVars>>
    \/ SchedStep /\ UNCHANGED <<nodeVars, apiVars>>
    \/ Materialize /\ UNCHANGED <<nodeVars, apiVars>>
    \/ CollectSinks /\ UNCHANGED <<nodeVars, apiVars>>
    \/ Reduce /\ UNCHANGED <<nodeVars, apiVars>>

Spec == Init /\ [][Next]_vars

---------------------------------------------------------------------------
(* Properties of the build *)

\* Peel off, again and again, the nodes with no incoming edge from what is
\* left: a graph is acyclic iff nothing is left.
RECURSIVE Peel(_, _)
Peel(dg, R) ==
    LET free == { v \in R : \A u \in R : <<u, v>> \notin dg.edges }
    IN  IF free = {} THEN R ELSE Peel(dg, R \ free)

IsDAG(dg) == Peel(dg, dg.nodes) = {}

NonIsolates == Nodes \ Range(SSI.isolates)

\* An iteration of the loop added no node and some sink is still unscheduled.
StallHappened ==
    /\ Len(sequence_of_nodes) >= 2
    /\ sequence_of_nodes[Len(sequence_of_nodes)] = <<>>
    /\ ~SinksCovered(sequence_of_nodes)

\* C1: for a DAG mask with at least one edge the scheduling loop never
\* stalls, ends within NumNodes layers, and the flattened sequence it ends
\* with holds every non-isolate node, each occurrence of a node coming after
\* an occurrence of every one of its predecessors.
C1_TopologicalOrder ==
    (IsDAG(DG) /\ MaskSum(binary_mask) >= 1) =>
        /\ pc = "sched" =>
              /\ ~StallHappened
              /\ Len(sequence_of_nodes) <= NumNodes
        /\ pc = "materialize" =>
              /\ NonIsolates \subseteq Range(order)
              /\ \A k \in 1..Len(order) :
                    \A u \in Nodes :
                        <<u, order[k]>> \in DG.edges =>
                            \E j \in 1..(k - 1) : order[j] = u

C1_Witness ==
    /\ IsDAG(DG)
    /\ pc = "materialize"
    /\ Len(sequence_of_nodes) >= 3
    /\ \E v \in Nodes : Cardinality(Preds(DG, v)) >= 2

\* C2: whenever an iteration of the scheduling loop adds no node while a sink
\* is unscheduled, the build has stopped with an error.
C2_StallStopsBuild == StallHappened => pc = "error"

\* C3: in a pass over a DAG mask get_node_output is called exactly once for
\* every non-isolate node.
C3_CalledOncePerStream ==
    (IsDAG(DG) /\ pc = "collect") =>
        \A v \in NonIsolates : node_calls[v] = 1

HasTwoCycle(dg) ==
    \E c, d \in dg.nodes :
        c # d /\ <<c, d>> \in dg.edges /\ <<d, c>> \in dg.edges

\* C4: when a two-node cycle stalls the scheduling, the build has failed with
\* an error and no layer instance exists.
C4_CycleFailsBeforeAllocation ==
    (HasTwoCycle(DG) /\ StallHappened) =>
        (pc = "error" /\ model_layers = {})

DegenerateStreams == [i \in 1..n_in |-> StreamTensor(i, 1)]

\* C6: on a zero mask the build never calls the graph extractor,
\* initialize_all_nodes or get_node_output, and it ends returning the
\* degenerate architecture: one width-1 output per stream, reduced.
C6_ZeroMaskDegenerate ==
    MaskSum(binary_mask) = 0 =>
        /\ graph_calls = 0
        /\ model_layers = {}
        /\ node_calls = NoCalls
        /\ pc # "start" =>
              /\ pc = "done"
              /\ full_outputs = DegenerateStreams
              /\ SubSeq(features, 1, n_in) = DegenerateStreams

HasOp(xs, name) == \E i \in 1..Len(xs) : xs[i].op = name

ReductionReached == pc \in {"done", "error"} /\ Len(full_outputs) = n_in

\* C7: for every number of streams the reduction completes without raising,
\* with the sum and the product computed, and the difference exactly when
\* there are two streams.
C7_ReductionNeverRaises ==
    ReductionReached =>
        /\ pc = "done"
        /\ HasOp(features, "add")
        /\ HasOp(features, "mul")
        /\ HasOp(features, "sub") <=> (n_in = 2)

OverStreams == [i \in 1..n_in |-> "stream"]
ExpectedMerge(name) ==
    [op |-> name, idx |-> 0, over |-> OverStreams, width |-> out_width]
ExpectedStreams == [i \in 1..n_in |-> StreamTensor(i, out_width)]

\* C8 as stated: the head is fed the stream vectors, then the sum, then the
\* product, then the difference if there is one.
C8_SumProductThenDifference ==
    pc = "done" =>
        /\ SubSeq(features, 1, n_in) = ExpectedStreams
        /\ features[n_in + 1] = ExpectedMerge("add")
        /\ features[n_in + 2] = ExpectedMerge("mul")
        /\ Len(features) > n_in + 2 =>
              /\ Len(features) = n_in + 3
              /\ features[n_in + 3] = ExpectedMerge("sub")

\* C8 amended: the head is fed the stream vectors, then the difference if it
\* was computed (two streams), then the sum, then the product; sum, product
\* and difference range over the stream vectors only; two streams of width w
\* give width 5w.
C8_DifferenceThenSumProduct ==
    pc = "done" =>
        /\ features = ExpectedStreams
                      \o (IF n_in = 2 THEN <<ExpectedMerge("sub")>> ELSE <<>>)
                      \o <<ExpectedMerge("add"), ExpectedMerge("mul")>>
        /\ n_in = 2 => SumWidth(features) = 5 * out_width

C8_Witness ==
    /\ pc = "done"
    /\ n_in = 2
    /\ MaskSum(binary_mask) > 0
    /\ out_width = 2
    /\ Len(features) = 5

---------------------------------------------------------------------------
(* get_node_output: shapes *)

Rank(shape) == Len(shape) + 1
Width(shape) == shape[Len(shape)]

\* expand_tile(x, axis=1) on a rank-2 tensor: a time axis of length 1
expand_tile(shape) == <<1>> \o shape

\* Dense(units)(x): the last axis becomes units
KerasDense(shape, units) == [shape EXCEPT ![Len(shape)] = units]

RECURSIVE SumAt(_, _)
SumAt(shapes, k) ==
    IF shapes = <<>> THEN 0 ELSE Head(shapes)[k] + SumAt(Tail(shapes), k)

Without(shape, k) == [i \in 1..(Len(shape) - 1) |->
                        IF i < k THEN shape[i] ELSE shape[i + 1]]

\* Concatenate(axis)(xs) on rank-3 tensors, axis given as the index k of the
\* non-batch dimension: ValueError unless the other dimensions agree.
ConcatRaises(shapes, k) ==
    \/ Len(shapes) < 2
    \/ Cardinality({ Without(shapes[i], k) : i \in 1..Len(shapes) }) > 1
ConcatShape(shapes, k) == [shapes[1] EXCEPT ![k] = SumAt(shapes, k)]

\* Lines 170-177: rank 3 is taken as it is, rank 2 is expanded
Gather(outs) ==
    [i \in 1..Len(outs) |->
        IF Rank(outs[i]) = 3 THEN outs[i] ELSE expand_tile(outs[i])]

\* Mutant of Projected: line 195 is dropped, no input is projected.
Projected_None(lst) == lst

\* Lines 189-195: every input narrower than the widest goes through a new
\* Dense(new_feature_shape)
Projected(lst) ==
    LET new_feature_shape == MaxOf({ lst[i][2] : i \in 1..Len(lst) })
    IN  [i \in 1..Len(lst) |->
            IF lst[i][2] = new_feature_shape THEN lst[i]
            ELSE KerasDense(lst[i], new_feature_shape)]

\* The Dense layers line 195 instantiates
NewDenses(lst) ==
    Cardinality({ i \in 1..Len(lst) : Projected(lst)[i] # lst[i] })

InputShapes ==
    { <<w>> : w \in 1..MaxWidth }
    \cup { <<t, w>> : t \in 1..MaxTime, w \in 1..MaxWidth }
    \cup { <<1, 1, 1>> }

RECURSIVE SeqsUpTo(_, _)
SeqsUpTo(S, n) ==
    IF n = 0 THEN {<<>>}
    ELSE LET P == SeqsUpTo(S, n - 1)
         IN  P \cup { Append(q, x) : q \in P, x \in S }

---------------------------------------------------------------------------
(* Actions of get_node_output *)

\* Lines 167-177: a non-source node collects its predecessors' outputs
GatherInputs ==
    /\ node_pc = "start"
    /\ inp = <<>>
    /\ IF \A i \in 1..Len(edges_outputs) : Rank(edges_outputs[i]) \in {2, 3}
       THEN /\ inp_list' = Gather(edges_outputs)
            /\ node_pc' = "gathered"
       ELSE /\ inp_list' = inp_list
            /\ node_pc' = "error"
    /\ UNCHANGED <<edges_outputs, inp, dense_created>>

\* Lines 178-180: Concatenate() on the feature axis succeeds
ConcatFeatures ==
    /\ node_pc = "gathered"
    /\ Len(inp_list) > 1
    /\ ~ConcatRaises(inp_list, 2)
    /\ inp' = ConcatShape(inp_list, 2)
    /\ node_pc' = "reconciled"
    /\ UNCHANGED <<edges_outputs, inp_list, dense_created>>

\* Lines 181-196: it raised ValueError; project and concatenate on time
ConcatFallback ==
    /\ node_pc = "gathered"
    /\ Len(inp_list) > 1
    /\ ConcatRaises(inp_list, 2)
    /\ dense_created' = dense_created + NewDenses(inp_list)
    /\ IF ConcatRaises(Projected(inp_list), 1)
       THEN /\ inp' = inp
            /\ node_pc' = "error"
       ELSE /\ inp' = ConcatShape(Projected(inp_list), 1)
            /\ node_pc' = "reconciled"
    /\ UNCHANGED <<edges_outputs, inp_list>>

\* Lines 197-198: a single predecessor
SingleInput ==
    /\ node_pc = "gathered"
    /\ Len(inp_list) = 1
    /\ inp' = inp_list[1]
    /\ node_pc' = "reconciled"
    /\ UNCHANGED <<edges_outputs, inp_list, dense_created>>

\* Lines 200-214: the node's shared layer is applied to inp
ApplyLayer ==
    /\ \/ node_pc = "reconciled"
       \/ node_pc = "start" /\ inp # <<>>
    /\ node_pc' = "done"
    /\ UNCHANGED <<edges_outputs, inp_list, inp, dense_created>>

NodeStep ==
    GatherInputs \/ ConcatFeatures \/ ConcatFallback \/ SingleInput \/ ApplyLayer

\* A source gets the embedded input (inp given); any other node gets the
\* outputs of its predecessors (inp is None, here <<>>).
NodeInit ==
    /\ node_pc = "start"
    /\ \/ /\ edges_outputs = <<>>
          /\ inp \in { <<t, w>> : t \in 1..MaxTime, w \in 1..MaxWidth }
       \/ /\ edges_outputs \in SeqsUpTo(InputShapes, MaxPreds) \ {<<>>}
          /\ inp = <<>>
    /\ inp_list = <<>>
    /\ dense_created = 0

InitNode == BuildIdle /\ NodeInit /\ ApiIdle

NextNode ==
    \/ GatherInputs /\ UNCHANGED <<buildVars, apiVars>>
    \/ ConcatFeatures /\ UNCHANGED <<buildVars, apiVars>>
    \/ ConcatFallback /\ UNCHANGED <<buildVars, apiVars>>
    \/ SingleInput /\ UNCHANGED <<buildVars, apiVars>>
    \/ ApplyLayer /\ UNCHANGED <<buildVars, apiVars>>

SpecNode == InitNode /\ [][NextNode]_vars

---------------------------------------------------------------------------
(* Properties of get_node_output *)

LiftedTime(shape) == IF Len(shape) = 1 THEN 1 ELSE shape[1]

RECURSIVE SumOver(_, _)
SumOver(F(_), shapes) ==
    IF shapes = <<>> THEN 0 ELSE F(Head(shapes)) + SumOver(F, Tail(shapes))

Rank2Or3 == \A i \in 1..Len(edges_outputs) : Len(edges_outputs[i]) \in {1, 2}

\* C9: no layer with trainable parameters is instantiated inside
\* get_node_output, that is, inside a stream's pass.
C9_NoLayerCreatedInPass == dense_created = 0

\* C10: with two or more predecessors of rank 2 or 3, get_node_output does
\* not fail and reconciles them to rank 3: on the feature axis (time kept,
\* widths added) when the lifted time lengths agree, else on the time axis
\* (time lengths added, the maximum width); a rank-2 and a rank-3 predecessor
\* of time length t # 1 give time length t + 1.
C10_Reconciliation ==
    (Len(edges_outputs) >= 2 /\ Rank2Or3) =>
        /\ node_pc # "error"
        /\ node_pc \notin {"done", "error"} => ENABLED NodeStep
        /\ node_pc \in {"reconciled", "done"} =>
              /\ Rank(inp) = 3
              /\ IF \A i, j \in 1..Len(edges_outputs) :
                        LiftedTime(edges_outputs[i]) = LiftedTime(edges_outputs[j])
                 THEN inp = << LiftedTime(edges_outputs[1]),
                               SumOver(Width, edges_outputs) >>
                 ELSE inp = << SumOver(LiftedTime, edges_outputs),
                               MaxOf({ Width(edges_outputs[i]) :
                                         i \in 1..Len(edges_outputs) }) >>
              /\ \A t \in 2..MaxTime, w1, w2 \in 1..MaxWidth :
                    edges_outputs = << <<w1>>, <<t, w2>> >> => inp[1] = t + 1

C10_Witness ==
    /\ node_pc = "done"
    /\ edges_outputs = << <<2>>, <<2, 1>> >>
    /\ inp = <<3, 2>>
    /\ dense_created = 1

---------------------------------------------------------------------------
(* The batch interface.  An argument is [kind, id, size]: a stream (a batch *)
(* of `size` samples), a labels list of `size` labels, or the tuple of the  *)
(* first `size` streams that __call__ hands on as one argument.             *)

Stream(k)  == [kind |-> "stream", id |-> k, size |-> BatchSize]
Labels(m)  == [kind |-> "labels", id |-> 0, size |-> m]
TupleOf(n) == [kind |-> "tuple", id |-> 0, size |-> n]
None       == [kind |-> "None", id |-> 0, size |-> 0]

\* x[0], x[1], ...: the streams of a tuple, the samples of a stream, the
\* labels of a labels list
Elements(x) ==
    [i \in 1..x.size |->
        CASE x.kind = "tuple"  -> Stream(i)
          [] x.kind = "stream" -> [kind |-> "sample", id |-> x.id, size |-> i]
          [] OTHER             -> [kind |-> "label", id |-> 0, size |-> i]]

\* `if labels:`
Truthy(x) == x.kind # "None" /\ x.size > 0

\* Lines 123-130: how infer_on_batch splits its positional arguments
InferSplit(args) ==
    IF Len(args) > 1
    THEN [raised |-> FALSE, labels |-> args[Len(args)],
          texts |-> SubSeq(args, 1, Len(args) - 1)]
    ELSE IF Len(args) = 1
    THEN [raised |-> FALSE, labels |-> None, texts |-> Elements(args[1])]
    ELSE [raised |-> TRUE, labels |-> None, texts |-> <<>>]

\* Lines 93-98: how train_on_batch splits them
TrainSplit(n, args) ==
    IF Len(args) > n
    THEN [labels |-> args[Len(args)], texts |-> SubSeq(args, 1, Len(args) - 1)]
    ELSE [labels |-> None, texts |-> args]

Arguments == { Stream(k) : k \in 1..MaxStreams } \cup { Labels(0), Labels(BatchSize) }

\* Lines 111-145
infer_on_batch(a) ==
    /\ api_pc = "ready"
    /\ api_op' = "infer_on_batch"
    /\ api_args' = a
    /\ LET r == InferSplit(a)
       IN  /\ api_labels' = r.labels
           /\ api_texts' = r.texts
           /\ IF r.raised
              THEN api_pc' = "raised" /\ api_result' = "ValueError"
              ELSE IF Len(r.texts) < api_in         \* texts[i], lines 133-134
              THEN api_pc' = "raised" /\ api_result' = "IndexError"
              ELSE /\ api_pc' = "returned"
                   /\ api_result' = IF Truthy(r.labels) THEN "metrics"
                                    ELSE "predictions"
    /\ UNCHANGED api_in

\* Lines 82-109
train_on_batch(a) ==
    /\ api_pc = "ready"
    /\ api_op' = "train_on_batch"
    /\ api_args' = a
    /\ LET r == TrainSplit(api_in, a)
       IN  /\ api_labels' = r.labels
           /\ api_texts' = r.texts
           /\ IF Len(r.texts) < api_in              \* texts[i], lines 101-102
              THEN api_pc' = "raised" /\ api_result' = "IndexError"
              ELSE IF r.labels = None               \* labels2onehot(None)
              THEN api_pc' = "raised" /\ api_result' = "TypeError"
              ELSE api_pc' = "returned" /\ api_result' = "metrics"
    /\ UNCHANGED api_in

\* Lines 147-164: the arguments go to infer_on_batch as one tuple
Call(a) ==
    /\ api_pc = "ready"
    /\ api_op' = "__call__"
    /\ api_args' = a
    /\ IF Len(a) # api_in \/ \E i \in 1..Len(a) : a[i] # Stream(i)
       THEN /\ api_pc' = "raised"
            /\ api_result' = "AssertionError"
            /\ UNCHANGED <<api_labels, api_texts>>
       ELSE LET r == InferSplit(<<TupleOf(Len(a))>>)
            IN  /\ api_labels' = r.labels
                /\ api_texts' = r.texts
                /\ api_pc' = "returned"
                /\ api_result' = "labels and probabilities"
    /\ UNCHANGED api_in

ApiInit ==
    /\ api_pc = "ready"
    /\ api_op = "none"
    /\ api_in \in 1..MaxStreams
    /\ api_args = <<>>
    /\ api_labels = None
    /\ api_texts = <<>>
    /\ api_result = "none"

ArgLists == SeqsUpTo(Arguments, MaxStreams + 1)

InitInfer == BuildIdle /\ NodeIdle /\ ApiInit

NextInfer ==
    \/ \E a \in ArgLists : infer_on_batch(a) /\ UNCHANGED <<buildVars, nodeVars>>
    \/ \E a \in ArgLists : train_on_batch(a) /\ UNCHANGED <<buildVars, nodeVars>>
    \/ \E a \in ArgLists : Call(a) /\ UNCHANGED <<buildVars, nodeVars>>

SpecInfer == InitInfer /\ [][NextInfer]_vars

AllStreams(n) == [i \in 1..n |-> Stream(i)]

\* C5: infer_on_batch given exactly the n streams binds no labels, takes the
\* n arguments as the streams and returns predictions; given the n streams
\* and a non-empty labels list it takes the last argument as the labels, the
\* n before it as the streams, and returns metrics.
C5_StreamsAreNeverLabels ==
    (api_op = "infer_on_batch" /\ api_pc # "ready") =>
        /\ api_args = AllStreams(api_in) =>
              /\ api_labels = None
              /\ api_texts = AllStreams(api_in)
              /\ api_pc = "returned"
              /\ api_result = "predictions"
        /\ api_args = Append(AllStreams(api_in), Labels(BatchSize)) =>
              /\ api_labels = Labels(BatchSize)
              /\ api_texts = AllStreams(api_in)
              /\ api_pc = "returned"
              /\ api_result = "metrics"

=============================================================================
